---- MODULE Spec2Model ----
(***************************************************************************)
(* A model of package rwsheets (Cryliss/go-rwsheets): the row splice       *)
(* RemoveRow, the serial-date conversion SerialDate, GetSheetData and      *)
(* UpdateSheetData of rwsheets.go, the Styler of doc.go and                *)
(* NewSheetsService of service.go, with Go's slice, integer, pointer and   *)
(* time semantics made explicit.                                           *)
(***************************************************************************)
EXTENDS Integers, Sequences, FiniteSets, TLC

VARIABLES
    store,      \* the backing array of the caller's row slice (cap(rows) cells)
    rowsLen,    \* len(rows) of the caller's slice header (offset 0 into store)
    call,       \* the last call made by the caller, with its outcome
    heap,       \* backing arrays shared by the concurrent callers
    gor,        \* the concurrent callers (goroutines) inside RemoveRow
    styler,     \* the fields of the Styler the caller holds a pointer to
    setLog,     \* per setting, the argument of the last setter call made for it
    cells,      \* the cells the Styler has built, by address
    disk,       \* the credential file and the token file
    remote      \* the spreadsheet service: the requests the last call sent it

\* What the row and date callers never touch.
clientVars == <<styler, setLog, cells, disk, remote>>

vars == <<store, rowsLen, call, heap, gor, styler, setLog, cells, disk, remote>>

(***************************************************************************)
(* Bounds of the model.                                                    *)
(***************************************************************************)
\* Capacity of a backing array, hence the longest row sequence.
MaxLen == 3

\* How far past len(rows) the removal index is drawn.
IdxSlack == 6

(***************************************************************************)
(* Go's int.  The width is that of a 32-bit GOARCH, the widest TLC's own   *)
(* integers can hold; the wrap-around is the same at 64 bits.              *)
(***************************************************************************)
MaxInt == 2147483647

MinInt == -MaxInt - 1

\* a + b in Go's int: overflow wraps around and does not panic.
AddInt(a, b) ==
    IF b > 0 /\ a > MaxInt - b THEN MinInt + (b - 1 - (MaxInt - a))
    ELSE IF b < 0 /\ a < MinInt - b THEN MaxInt + ((a - MinInt) + b + 1)
    ELSE a + b

\* a - b in Go's int, for the small non-negative b the code uses.
SubInt(a, b) ==
    IF a < MinInt + b THEN MaxInt - (b - 1 - (a - MinInt))
    ELSE a - b

(***************************************************************************)
(* Rows and slices.  A row is an opaque pointer to a sheets.RowData.  A    *)
(* slice is a window of length len at offset 0 of a backing array of       *)
(* MaxLen cells, so cap(rows) = MaxLen.                                    *)
(***************************************************************************)
Rows == 1 .. MaxLen

FreshArray == [k \in 1 .. MaxLen |-> k]

\* The elements read through a slice header of length n over array mem.
Elems(mem, n) == SubSeq(mem, 1, n)

\* Removal indexes the callers pass: around the slice bounds, and the
\* extremes of int.
Indexes == (-2 .. MaxLen + IdxSlack) \cup {MaxInt, MinInt}

Panicked(mem, n) == [panic |-> TRUE, mem |-> mem, len |-> n]

Returned(mem, n) == [panic |-> FALSE, mem |-> mem, len |-> n]

\* rows[:high] on a slice of capacity Len(mem): a run-time panic unless
\* 0 <= high <= cap(rows).
SliceHigh(mem, n, high) ==
    IF high < 0 \/ high > Len(mem) THEN Panicked(mem, n)
    ELSE Returned(mem, high)

\* A splice that forgets to skip the removed row.
SpliceOut_NoSkip(mem, n, rmvIdx) == Returned(mem, n)

\* A splice that also clears the cell it vacates at the end.
SpliceOut_ClearTail(mem, n, rmvIdx) ==
    IF rmvIdx < 0 \/ rmvIdx >= n THEN Panicked(mem, n)
    ELSE Returned([k \in 1 .. Len(mem) |->
                      IF k >= rmvIdx + 1 /\ k <= n - 1 THEN mem[k + 1]
                      ELSE IF k = n THEN 0 ELSE mem[k]],
                  n - 1)

\* A splice that takes a negative index for a row that is not there.
SpliceOut_NegativeNoOp(mem, n, rmvIdx) ==
    IF rmvIdx < 0 THEN Returned(mem, n)
    ELSE IF rmvIdx > Len(mem) \/ AddInt(rmvIdx, 1) > n THEN Panicked(mem, n)
    ELSE Returned([k \in 1 .. Len(mem) |->
                      IF k >= rmvIdx + 1 /\ k <= n - 1 THEN mem[k + 1] ELSE mem[k]],
                  n - 1)

\* append(rows[:rmvIdx], rows[rmvIdx+1:]...): both slice expressions are
\* bounds-checked, then the tail is copied down one cell inside the same
\* backing array (the capacity always suffices, so nothing is reallocated).
\* Go index j is cell j + 1 here.
SpliceOut(mem, n, rmvIdx) ==
    LET low == AddInt(rmvIdx, 1) IN
    IF rmvIdx < 0 \/ rmvIdx > Len(mem) THEN Panicked(mem, n)
    ELSE IF low < 0 \/ low > n THEN Panicked(mem, n)
    ELSE Returned([k \in 1 .. Len(mem) |->
                      IF k >= rmvIdx + 1 /\ k <= n - 1 THEN mem[k + 1] ELSE mem[k]],
                  n - 1)

\* RemoveRow(rows, rmvIdx), rows being the first n cells of mem.  The result
\* tells whether the call panicked, the backing array after it and the length
\* of the returned slice.
RemoveRow(mem, n, rmvIdx) ==
    IF n = rmvIdx THEN SliceHigh(mem, n, SubInt(rmvIdx, 2))
    ELSE IF AddInt(rmvIdx, 1) > n THEN Returned(mem, n)
    ELSE SpliceOut(mem, n, rmvIdx)

(***************************************************************************)
(* time.Parse, as SerialDate calls it.  Strings are sequences of           *)
(* characters.  The layout elements modelled are the ones the layouts of   *)
(* the callers use: 1 and 01 (month), 2 and 02 (day), 2006 (year), 15      *)
(* (hour) and -0700 (numeric zone offset); any other character of a layout *)
(* is literal text.                                                        *)
(***************************************************************************)
NoErr == "nil"

ErrBad == "ParseError: cannot parse value"

ErrExtra == "ParseError: extra text"

ErrMonthRange == "ParseError: month out of range"

ErrHourRange == "ParseError: hour out of range"

ErrDayRange == "ParseError: day out of range"

Digits == {"0", "1", "2", "3", "4", "5", "6", "7", "8", "9"}

DigitVal(c) ==
    CASE c = "0" -> 0 [] c = "1" -> 1 [] c = "2" -> 2 [] c = "3" -> 3
      [] c = "4" -> 4 [] c = "5" -> 5 [] c = "6" -> 6 [] c = "7" -> 7
      [] c = "8" -> 8 [] c = "9" -> 9

\* The character at Go index i of s; "" past the end.
At(s, i) == IF i >= 0 /\ i < Len(s) THEN SubSeq(s, i + 1, i + 1) ELSE ""

\* s[i:] in Go's indexing.
From(s, i) == SubSeq(s, i + 1, Len(s))

HasPrefix(s, p) == Len(s) >= Len(p) /\ SubSeq(s, 1, Len(p)) = p

isDigit(s, i) == At(s, i) \in Digits

\* getnum: one or two leading digits (exactly two when fixed).
getnum(s, fixed) ==
    IF ~isDigit(s, 0) THEN [err |-> ErrBad, n |-> 0, rest |-> s]
    ELSE IF ~isDigit(s, 1)
         THEN IF fixed THEN [err |-> ErrBad, n |-> 0, rest |-> s]
              ELSE [err |-> NoErr, n |-> DigitVal(At(s, 0)), rest |-> From(s, 1)]
    ELSE [err |-> NoErr, n |-> DigitVal(At(s, 0)) * 10 + DigitVal(At(s, 1)),
          rest |-> From(s, 2)]

\* cutspace: s without its leading spaces.
RECURSIVE cutspace(_)
cutspace(s) == IF Len(s) > 0 /\ Head(s) = " " THEN cutspace(Tail(s)) ELSE s

\* nextStdChunk at the head of a layout: the element that starts there and
\* the number of layout characters it takes.
StdChunk(lay) ==
    LET c == Head(lay) IN
    CASE c = "0" /\ At(lay, 1) = "1" -> [std |-> "stdZeroMonth", width |-> 2]
      [] c = "0" /\ At(lay, 1) = "2" -> [std |-> "stdZeroDay", width |-> 2]
      [] c = "1" /\ At(lay, 1) = "5" -> [std |-> "stdHour", width |-> 2]
      [] c = "1" /\ At(lay, 1) # "5" -> [std |-> "stdNumMonth", width |-> 1]
      [] c = "2" /\ HasPrefix(lay, "2006") -> [std |-> "stdLongYear", width |-> 4]
      [] c = "2" /\ ~HasPrefix(lay, "2006") -> [std |-> "stdDay", width |-> 1]
      [] c = "-" /\ HasPrefix(lay, "-0700") -> [std |-> "stdNumTZ", width |-> 5]
      [] OTHER -> [std |-> "literal", width |-> 1]

\* The fields Parse collects; month and day start unset (-1), the zone
\* offset (minutes east of UTC) starts absent.
NoFields == [year |-> 0, month |-> -1, day |-> -1, hour |-> 0,
             zoneSet |-> FALSE, zoneOffset |-> 0]

isLeap(year) == year % 4 = 0 /\ (year % 100 # 0 \/ year % 400 = 0)

daysIn(month, year) ==
    IF month = 2 /\ isLeap(year) THEN 29
    ELSE <<31, 28, 31, 30, 31, 30, 31, 31, 30, 31, 30, 31>>[month]

daysBefore == <<0, 31, 59, 90, 120, 151, 181, 212, 243, 273, 304, 334>>

\* Days from 0000-01-01 to year-month-day in the proleptic Gregorian
\* calendar, which is what time.Date counts in (year 0 is a leap year).
daysSinceEpoch(year, month, day) ==
    365 * year
    + ((year + 3) \div 4 - (year + 99) \div 100 + (year + 399) \div 400)
    + daysBefore[month]
    + (IF isLeap(year) /\ month >= 3 THEN 1 ELSE 0)
    + (day - 1)

\* time.Date in UTC, then addSec(-zoneOffset): the instant, in hours since
\* 0000-01-01T00:00Z and minutes of that hour.
Instant(f) ==
    LET mins == f.hour * 60 - (IF f.zoneSet THEN f.zoneOffset ELSE 0) IN
    [h |-> daysSinceEpoch(f.year, f.month, f.day) * 24 + (mins \div 60),
     m |-> mins % 60]

\* The end of Parse: unset month and day become 1, the day of the month is
\* validated, and the time is built.
Finish(f) ==
    LET g == [f EXCEPT !.month = IF f.month < 0 THEN 1 ELSE f.month,
                       !.day = IF f.day < 0 THEN 1 ELSE f.day] IN
    IF g.day < 1 \/ g.day > daysIn(g.month, g.year)
    THEN [err |-> ErrDayRange, f |-> g, t |-> [h |-> 0, m |-> 0]]
    ELSE [err |-> NoErr, f |-> g, t |-> Instant(g)]

Failed(e, f) == [err |-> e, f |-> f, t |-> [h |-> 0, m |-> 0]]

\* One layout element read off the front of value: the fields after it, the
\* rest of the value, and the error if it does not match.
ParseChunk(std, value, f) ==
    CASE std \in {"stdNumMonth", "stdZeroMonth"} ->
           LET g == getnum(value, std = "stdZeroMonth") IN
           [err |-> IF g.err # NoErr THEN g.err
                    ELSE IF g.n <= 0 \/ 12 < g.n THEN ErrMonthRange ELSE NoErr,
            rest |-> g.rest, f |-> [f EXCEPT !.month = g.n]]
      [] std \in {"stdDay", "stdZeroDay"} ->
           LET g == getnum(value, std = "stdZeroDay") IN
           [err |-> g.err, rest |-> g.rest, f |-> [f EXCEPT !.day = g.n]]
      [] std = "stdHour" ->
           LET g == getnum(value, FALSE) IN
           [err |-> IF g.err # NoErr THEN g.err
                    ELSE IF g.n < 0 \/ 24 <= g.n THEN ErrHourRange ELSE NoErr,
            rest |-> g.rest, f |-> [f EXCEPT !.hour = g.n]]
      [] std = "stdLongYear" ->
           IF Len(value) < 4 \/ \E i \in 0 .. 3 : ~isDigit(value, i)
           THEN [err |-> ErrBad, rest |-> value, f |-> f]
           ELSE [err |-> NoErr, rest |-> From(value, 4),
                 f |-> [f EXCEPT !.year =
                          DigitVal(At(value, 0)) * 1000 + DigitVal(At(value, 1)) * 100
                          + DigitVal(At(value, 2)) * 10 + DigitVal(At(value, 3))]]
      [] std = "stdNumTZ" ->
           IF Len(value) < 5 THEN [err |-> ErrBad, rest |-> value, f |-> f]
           ELSE LET hr == getnum(SubSeq(value, 2, 3), TRUE)
                    mm == getnum(SubSeq(value, 4, 5), TRUE)
                    off == hr.n * 60 + mm.n
                IN  IF hr.err # NoErr \/ mm.err # NoErr \/ At(value, 0) \notin {"+", "-"}
                    THEN [err |-> ErrBad, rest |-> From(value, 5), f |-> f]
                    ELSE [err |-> NoErr, rest |-> From(value, 5),
                          f |-> [f EXCEPT !.zoneSet = TRUE,
                                          !.zoneOffset = IF At(value, 0) = "-"
                                                         THEN -off ELSE off]]

\* Parse's loop: literal layout text must match the value (a layout space
\* matches any run of spaces), each element is read off the value, and text
\* left over once the layout ends is an error.
RECURSIVE ParseFrom(_, _, _)
ParseFrom(lay, value, f) ==
    IF Len(lay) = 0
    THEN IF Len(value) # 0 THEN Failed(ErrExtra, f) ELSE Finish(f)
    ELSE LET ch == StdChunk(lay) IN
         IF ch.std = "literal"
         THEN IF Head(lay) = " "
              THEN IF Len(value) > 0 /\ Head(value) # " " THEN Failed(ErrBad, f)
                   ELSE ParseFrom(cutspace(lay), cutspace(value), f)
              ELSE IF Len(value) = 0 \/ Head(value) # Head(lay) THEN Failed(ErrBad, f)
                   ELSE ParseFrom(Tail(lay), Tail(value), f)
         ELSE LET r == ParseChunk(ch.std, value, f) IN
              IF r.err # NoErr THEN Failed(r.err, r.f)
              ELSE ParseFrom(From(lay, ch.width), r.rest, r.f)

\* time.Parse(layout, value): the error, the fields read and the instant.
Parse(layout, value) == ParseFrom(layout, value, NoFields)

(***************************************************************************)
(* time.Duration and SerialDate.  A Duration is an int64 count of          *)
(* nanoseconds; it is kept here as hours, minutes, seconds and nanoseconds *)
(* that all carry its sign, so that the int64 extremes can be written.     *)
(***************************************************************************)
\* math.MaxInt64 nanoseconds: 2562047h47m16.854775807s.
maxDuration == [h |-> 2562047, m |-> 47, s |-> 16, ns |-> 854775807]

\* math.MinInt64 nanoseconds: -2562047h47m16.854775808s.
minDuration == [h |-> -2562047, m |-> -47, s |-> -16, ns |-> -854775808]

\* t.Sub(u): the difference of two instants, or the largest (smallest)
\* Duration when the difference does not fit in one.
Sub(t, u) ==
    LET dh == t.h - u.h
        dm == t.m - u.m
        h == IF dh > 0 /\ dm < 0 THEN dh - 1 ELSE IF dh < 0 /\ dm > 0 THEN dh + 1 ELSE dh
        m == IF dh > 0 /\ dm < 0 THEN dm + 60 ELSE IF dh < 0 /\ dm > 0 THEN dm - 60 ELSE dm
    IN  IF h > maxDuration.h \/ (h = maxDuration.h /\ m > maxDuration.m) THEN maxDuration
        ELSE IF h < minDuration.h \/ (h = minDuration.h /\ m < minDuration.m) THEN minDuration
        ELSE [h |-> h, m |-> m, s |-> 0, ns |-> 0]

\* Integer division that truncates toward zero, as Go's / does.
Quo(a, b) == IF a >= 0 THEN a \div b ELSE -((-a) \div b)

\* d.Hours() / 24 as a float64: the number of days, kept exactly as whole
\* days and the remaining part of a day.  No two durations of the model are
\* close enough for float64 rounding to make their quotients equal.
HoursOver24(d) ==
    [days |-> Quo(d.h, 24), h |-> d.h - 24 * Quo(d.h, 24),
     m |-> d.m, s |-> d.s, ns |-> d.ns]

\* float64(0.0), and a whole number of days.
WholeDays(n) == [days |-> n, h |-> 0, m |-> 0, s |-> 0, ns |-> 0]

\* The layout and the value of the date SerialDate counts from.
startLayout == "1/2/2006"

\* The start date of another spreadsheet convention.
startValue_1900 == "1/1/1900"

startValue == "12/30/1899"

\* A SerialDate that goes on to compute with the time of a failed parse.
SerialDate_KeepGoing(value, format) ==
    LET newDate == Parse(format, value)
        startDate == Parse(startLayout, startValue)
    IN  [val |-> HoursOver24(Sub(newDate.t, startDate.t)), err |-> newDate.err]

\* SerialDate(value, format): the number and the error it returns.
SerialDate(value, format) ==
    LET newDate == Parse(format, value)
        startDate == Parse(startLayout, startValue)
    IN  IF newDate.err # NoErr THEN [val |-> WholeDays(0), err |-> newDate.err]
        ELSE IF startDate.err # NoErr THEN [val |-> WholeDays(0), err |-> startDate.err]
        ELSE [val |-> HoursOver24(Sub(newDate.t, startDate.t)), err |-> NoErr]

(***************************************************************************)
(* The inputs of SerialDate the callers draw from.                         *)
(***************************************************************************)
LayoutMDY == "1/2/2006"

LayoutISO == "2006-01-02"

LayoutZone == "1/2/2006 -0700"

LayoutHour == "1/2/2006 15"

LayoutLiteral == "not-a-date"

Layouts == {LayoutMDY, LayoutISO, LayoutZone, LayoutHour, LayoutLiteral}

\* The layouts that hold a date and nothing else.
DateOnlyLayouts == {LayoutMDY, LayoutISO}

NotADate == "not-a-date"

DateValues ==
    {"12/30/1899", "12/31/1899", "1/1/1900", "12/29/1899", "3/2/2023",
     "2/29/2024", "2/29/2023", "13/1/2023", "3/2/2023x", "3/2/23",
     "4/8/2192", "4/9/2192", "1/1/2200", "9/21/1607", "9/20/1607", "1/1/1600",
     "2023-03-02", "2023-3-2", "1899-12-30",
     "3/2/2023 -0700", "3/2/2023 +0000", "3/2/2023 +0530", "3/2/2023 0700",
     "3/2/2023 07", "3/2/2023 24", "12/30/1899 12",
     NotADate, ""}

\* SerialDate run on every input: the input with the number and the error
\* it returns.
SerialDateRuns ==
    {[value |-> p[1], layout |-> p[2], val |-> SerialDate(p[1], p[2]).val,
      err |-> SerialDate(p[1], p[2]).err] : p \in DateValues \X Layouts}

(***************************************************************************)
(* The Styler (doc.go).  NewStyler returns a pointer to a Styler; every    *)
(* setter writes one field through its pointer receiver and returns the    *)
(* receiver.  A setter is modelled by the fields of the receiver after the *)
(* call (self) and the fields of the Styler its return value points to     *)
(* (ret).                                                                  *)
(***************************************************************************)
NewStyler ==
    [fontBold |-> FALSE, fontFamily |-> "Verdana", fontSize |-> 10,
     datePattern |-> "M/d/yyyy", numberPattern |-> "#,##0.00_);-#,##0.00",
     horizontalAlignment |-> "LEFT", verticalAlignment |-> "MIDDLE"]

\* return s: the returned pointer is the receiver.
ReturnReceiver(s) == [self |-> s, ret |-> s]

\* A setter with a value receiver: it changes and returns a copy.
FontBold_OnCopy(s, bold) == [self |-> s, ret |-> [s EXCEPT !.fontBold = bold]]

FontBold(s, bold) == ReturnReceiver([s EXCEPT !.fontBold = bold])

FontFamily(s, fontFamily) == ReturnReceiver([s EXCEPT !.fontFamily = fontFamily])

FontSize(s, fontSize) == ReturnReceiver([s EXCEPT !.fontSize = fontSize])

DatePattern(s, pattern) == ReturnReceiver([s EXCEPT !.datePattern = pattern])

NumberPattern(s, pattern) == ReturnReceiver([s EXCEPT !.numberPattern = pattern])

HorizontalAlignment(s, alignment) ==
    LET a1 == IF alignment = "" THEN "LEFT" ELSE alignment
        a2 == IF a1 = "MIDDLE" THEN "CENTER" ELSE a1
    IN  ReturnReceiver([s EXCEPT !.horizontalAlignment = a2])

VerticalAlignment(s, alignment) ==
    LET a1 == IF alignment = "" THEN "MIDDLE" ELSE alignment
    IN  ReturnReceiver([s EXCEPT !.verticalAlignment = a1])

\* The formats built from the Styler's fields; each call builds a new value.
TextFormat(s) ==
    [Bold |-> s.fontBold, FontFamily |-> s.fontFamily, FontSize |-> s.fontSize]

\* A nil *sheets.NumberFormat.
NoNumberFormat == [Pattern |-> "", Type |-> "nil"]

DateFormat(s) == [Pattern |-> s.datePattern, Type |-> "DATE"]

NumberFormat(s) == [Pattern |-> s.numberPattern, Type |-> "NUMBER"]

AccountingFormat(s) ==
    [Pattern |-> "_(\"$\"* #,##0.00_);_(\"$\"* \\(#,##0.00\\);_(\"$\"* \"-\"??_);_(@_)",
     Type |-> "NUMBER"]

\* sheets.ExtendedValue: the one field its constructor sets.
TextValue(value) ==
    [set |-> "StringValue", StringValue |-> value, NumberValue |-> WholeDays(0),
     BoolValue |-> FALSE]

BoolValue(value) ==
    [set |-> "BoolValue", StringValue |-> "", NumberValue |-> WholeDays(0),
     BoolValue |-> value]

NumberValue(value) ==
    [set |-> "NumberValue", StringValue |-> "", NumberValue |-> value,
     BoolValue |-> FALSE]

\* A nil *BorderConf, and the border configuration of the callers.
NilBorders == "nil"

BorderConfs == {NilBorders, "SOLID"}

\* sheets.CellData with its sheets.CellFormat: format.Borders stays nil
\* unless borders were given.
CellData(s, value, numberFormat, validation, borders) ==
    [DataValidation |-> validation,
     UserEnteredValue |-> value,
     HorizontalAlignment |-> s.horizontalAlignment,
     VerticalAlignment |-> s.verticalAlignment,
     TextFormat |-> TextFormat(s),
     NumberFormat |-> numberFormat,
     Borders |-> IF borders # NilBorders THEN borders ELSE NilBorders]

TextCell(s, value, borders) ==
    CellData(s, TextValue(value), NoNumberFormat, FALSE, borders)

BoolCell(s, value, borders) ==
    CellData(s, BoolValue(value), NoNumberFormat, FALSE, borders)

CheckBoxCell(s, value, borders) ==
    CellData(s, BoolValue(value), NoNumberFormat, TRUE, borders)

NumberCell(s, value, borders) ==
    CellData(s, NumberValue(value), NumberFormat(s), FALSE, borders)

AccountingCell(s, value, borders) ==
    CellData(s, NumberValue(value), AccountingFormat(s), FALSE, borders)

\* The SerialDate run DateCell makes.
SerialDateRun(date, layout) ==
    CHOOSE c \in SerialDateRuns : c.value = date /\ c.layout = layout

\* A DateCell that does not look at the error of SerialDate.
DateCell_IgnoreErr(s, date, layout, borders) ==
    CellData(s, NumberValue(SerialDateRun(date, layout).val), DateFormat(s), FALSE,
             borders)

DateCell(s, date, layout, borders) ==
    LET r == SerialDateRun(date, layout) IN
    IF r.err # NoErr THEN TextCell(s, date, borders)
    ELSE CellData(s, NumberValue(r.val), DateFormat(s), FALSE, borders)

(***************************************************************************)
(* NewSheetsService (service.go).  The disk holds the credential file and  *)
(* the token file; the web authorization flow and sheets.NewService are    *)
(* outside the package and their outcome is an input of the call.          *)
(***************************************************************************)
ErrReadCredentials == "unable to read contents of credential file"

ErrReadToken == "unable to read contents of token file"

ErrConfig == "failed to create oauth2.Config"

\* The errors of the outside: json's decoder and sheets.NewService.
ErrDecode == "json: cannot decode token"

ErrNewService == "sheets: cannot create service"

\* The tokens the authorization server hands out; no token at all.
Tokens == {"token-a", "token-b"}

NoToken == "nil"

\* The token file is missing, or cannot be opened for reading, or does not
\* decode, or holds a token.
TokenFiles ==
    {[state |-> st, token |-> NoToken] : st \in {"missing", "unreadable", "undecodable"}}
    \cup {[state |-> "valid", token |-> t] : t \in Tokens}

\* The credential file is missing, or is not a client configuration, or is
\* one.  canWrite: os.OpenFile(tokenFile, O_RDWR|O_CREATE|O_TRUNC) succeeds.
Disks ==
    [cred : {"missing", "invalid", "valid"}, tok : TokenFiles, canWrite : BOOLEAN]

FreshDisk ==
    [cred |-> "valid", tok |-> [state |-> "missing", token |-> NoToken],
     canWrite |-> TRUE]

\* The outcomes of the web flow: the user's code is exchanged for a token,
\* or reading the code or the exchange fails (log.Fatalf).
WebOutcomes == Tokens \cup {"fatal"}

getConfig(d) ==
    IF d.cred = "missing" THEN [config |-> "nil", err |-> ErrReadCredentials]
    ELSE IF d.cred = "invalid" THEN [config |-> "nil", err |-> ErrConfig]
    ELSE [config |-> "config", err |-> NoErr]

tokenFromFile(d) ==
    IF d.tok.state \in {"missing", "unreadable"}
    THEN [tok |-> NoToken, err |-> ErrReadToken]
    ELSE IF d.tok.state = "undecodable" THEN [tok |-> "empty", err |-> ErrDecode]
    ELSE [tok |-> d.tok.token, err |-> NoErr]

\* saveToken: a failed OpenFile is logged and the encoder then writes to a
\* nil file, whose error is dropped; otherwise the file is truncated and
\* holds the token.
saveToken(d, token) ==
    IF ~d.canWrite THEN [disk |-> d, exit |-> FALSE]
    ELSE [disk |-> [d EXCEPT !.tok = [state |-> "valid", token |-> token]],
          exit |-> FALSE]

\* getToken: the token of the file, or else the token of the web flow,
\* which is then saved.  Its error is always nil.
getToken(d, web) ==
    LET r == tokenFromFile(d) IN
    IF r.err = NoErr
    THEN [tok |-> r.tok, err |-> NoErr, disk |-> d, flows |-> 0, saves |-> 0,
          reads |-> 1, exit |-> FALSE]
    ELSE IF web = "fatal"
    THEN [tok |-> NoToken, err |-> NoErr, disk |-> d, flows |-> 1, saves |-> 0,
          reads |-> 1, exit |-> TRUE]
    ELSE LET w == saveToken(d, web) IN
         [tok |-> web, err |-> NoErr, disk |-> w.disk, flows |-> 1, saves |-> 1,
          reads |-> 1, exit |-> w.exit]

\* What NewSheetsService leaves behind when it stops before the token.
BeforeToken(d, err) ==
    [handle |-> "nil", err |-> err, tok |-> NoToken, disk |-> d, flows |-> 0,
     saves |-> 0, reads |-> 0, exit |-> FALSE]

\* A NewSheetsService that fetches the token before it looks at the error of
\* getConfig.
NewSheetsService_TokenFirst(d, web, serviceOK) ==
    LET c == getConfig(d)
        t == getToken(d, web)
    IN  [handle |-> IF c.err = NoErr /\ ~t.exit /\ serviceOK THEN "service" ELSE "nil",
         err |-> IF c.err # NoErr THEN c.err
                 ELSE IF t.exit \/ serviceOK THEN NoErr ELSE ErrNewService,
         tok |-> t.tok, disk |-> t.disk, flows |-> t.flows, saves |-> t.saves,
         reads |-> t.reads, exit |-> t.exit]

\* NewSheetsService(ctx, credentialFile, tokenFile, scope...): the pair it
\* returns, the disk after it, how often it read the token file, ran the web
\* flow and called saveToken, and whether the program was stopped inside it.
NewSheetsService(d, web, serviceOK) ==
    LET c == getConfig(d) IN
    IF c.err # NoErr THEN BeforeToken(d, c.err)
    ELSE LET t == getToken(d, web) IN
         IF t.exit
         THEN [handle |-> "nil", err |-> NoErr, tok |-> t.tok, disk |-> t.disk,
               flows |-> t.flows, saves |-> t.saves, reads |-> t.reads,
               exit |-> TRUE]
         ELSE IF t.err # NoErr
         THEN [handle |-> "nil", err |-> t.err, tok |-> t.tok, disk |-> t.disk,
               flows |-> t.flows, saves |-> t.saves, reads |-> t.reads,
               exit |-> FALSE]
         ELSE [handle |-> IF serviceOK THEN "service" ELSE "nil",
               err |-> IF serviceOK THEN NoErr ELSE ErrNewService,
               tok |-> t.tok, disk |-> t.disk, flows |-> t.flows,
               saves |-> t.saves, reads |-> t.reads, exit |-> FALSE]

(***************************************************************************)
(* GetSheetData and UpdateSheetData (rwsheets.go).  The spreadsheet        *)
(* service is outside the package: its reply is an input of the call, and  *)
(* it keeps the requests the last call sent it.                            *)
(***************************************************************************)
\* The longest list of sheets in a reply.
MaxSheets == 2

\* Go's int64, kept as three limbs so that its extremes can be written: the
\* value is top * 2^62 + mid * 2^31 + lo with top in -2 .. 1 and mid, lo in
\* 0 .. 2^31 - 1.
LimbMax == MaxInt

Int64(top, mid, lo) == [top |-> top, mid |-> mid, lo |-> lo]

\* A small non-negative number, -1, and the extremes.
Small64(k) == Int64(0, 0, k)

MinusOne64 == Int64(-1, LimbMax, LimbMax)

MaxInt64 == Int64(1, LimbMax, LimbMax)

MinInt64 == Int64(-2, 0, 0)

\* x + int64(n) for 0 <= n <= LimbMax: the carries run up the limbs and the
\* carry out of the top limb is lost (the sum wraps around).
AddInt64(x, n) ==
    LET carryLo == x.lo > LimbMax - n
        carryMid == carryLo /\ x.mid = LimbMax
    IN  Int64(IF carryMid THEN (IF x.top = 1 THEN -2 ELSE x.top + 1) ELSE x.top,
              IF carryLo THEN (IF x.mid = LimbMax THEN 0 ELSE x.mid + 1) ELSE x.mid,
              IF carryLo THEN x.lo - (LimbMax - n) - 1 ELSE x.lo + n)

\* The errors of the service, and the error of GetSheetData itself.
ApiErrors == {"googleapi: Error 403", "googleapi: Error 404"}

noData == "no sheet data found"

\* sheet.Data: the grids of a sheet, each grid being its RowData.
Sheets == {<<>>, <<(<<1, 2>>)>>, <<(<<3>>), (<<1, 2>>)>>, <<(<<>>), (<<3>>)>>}

RECURSIVE SeqsUpTo(_, _)
SeqsUpTo(S, n) ==
    IF n = 0 THEN {<<>>}
    ELSE SeqsUpTo(S, n - 1)
         \cup {Append(q, x) : q \in {r \in SeqsUpTo(S, n - 1) : Len(r) = n - 1}, x \in S}

\* ss.Sheets: the sheets of a reply.
SheetLists == SeqsUpTo(Sheets, MaxSheets)

\* A reply is a spreadsheet and no error, or an error and no spreadsheet.
Replies ==
    {[err |-> NoErr, Sheets |-> l] : l \in SheetLists}
    \cup {[err |-> e, Sheets |-> <<>>] : e \in ApiErrors}

\* A GetSheetData that reads the last sheet of the reply.
GetSheetData_LastSheet(reply) ==
    IF reply.err # NoErr THEN [rows |-> <<>>, err |-> reply.err]
    ELSE IF Len(reply.Sheets) = 0 THEN [rows |-> <<>>, err |-> noData]
    ELSE LET sheet == reply.Sheets[Len(reply.Sheets)] IN
         IF Len(sheet) = 0 THEN [rows |-> <<>>, err |-> noData]
         ELSE [rows |-> sheet[1], err |-> NoErr]

\* GetSheetData(ssid, readRange, srv), the service answering with reply:
\* the rows and the error returned (rows starts as the nil slice).
GetSheetData(reply) ==
    IF reply.err # NoErr THEN [rows |-> <<>>, err |-> reply.err]
    ELSE IF Len(reply.Sheets) = 0 THEN [rows |-> <<>>, err |-> noData]
    ELSE LET sheet == reply.Sheets[1] IN
         IF Len(sheet) = 0 THEN [rows |-> <<>>, err |-> noData]
         ELSE [rows |-> sheet[1], err |-> NoErr]

\* The batch update UpdateSheetData builds.
BatchUpdate(endColumnIndex, gid, startColumnIndex, startRowIndex, newVals) ==
    [IncludeSpreadsheetInResponse |-> FALSE,
     Requests |->
        <<[UpdateCells |->
             [Fields |-> "*",
              Range |-> [EndColumnIndex |-> endColumnIndex,
                         SheetId |-> gid,
                         StartColumnIndex |-> startColumnIndex,
                         StartRowIndex |-> startRowIndex,
                         EndRowIndex |-> AddInt64(startRowIndex, Len(newVals))],
              Rows |-> newVals]]>>]

\* UpdateSheetData(ssid, endColumnIndex, gid, startColumnIndex,
\* startRowIndex, newVals, srv), the service answering with apiErr: the
\* requests sent and the error returned.
UpdateSheetData(ssid, endColumnIndex, gid, startColumnIndex, startRowIndex, newVals, apiErr) ==
    [sent |-> <<[ssid |-> ssid,
                 batch |-> BatchUpdate(endColumnIndex, gid, startColumnIndex,
                                       startRowIndex, newVals)]>>,
     err |-> apiErr]

\* The service before any request.
QuietRemote == [requests |-> <<>>]

\* The Styler's setters have not been called.
NoSetterCalls ==
    [fontBold |-> [called |-> FALSE, arg |-> FALSE],
     fontFamily |-> [called |-> FALSE, arg |-> ""],
     fontSize |-> [called |-> FALSE, arg |-> 0],
     datePattern |-> [called |-> FALSE, arg |-> ""],
     numberPattern |-> [called |-> FALSE, arg |-> ""],
     horizontalAlignment |-> [called |-> FALSE, arg |-> ""],
     verticalAlignment |-> [called |-> FALSE, arg |-> ""]]

\* The state of what the row and date callers never touch.
ClientIdle ==
    /\ styler = NewStyler
    /\ setLog = NoSetterCalls
    /\ cells = <<>>
    /\ disk = FreshDisk
    /\ remote = QuietRemote

(***************************************************************************)
(* Concurrent callers.  Each goroutine runs RemoveRow on a slice of one of *)
(* the backing arrays of the heap; the copy inside append moves one cell   *)
(* at a time, a read and then a write, and other goroutines may run        *)
(* between any two of these steps.  SerialDate touches no shared memory    *)
(* and is one step.  The goroutines make one call each per round.          *)
(***************************************************************************)
\* The sequential caller has made no call yet.
NoCall == [op |-> "none"]

Goroutines == {1, 2}

Arrays == {1, 2}

FreshHeap == [a \in Arrays |-> FreshArray]

\* The removal indexes and the dates the concurrent callers pass.
ConcIndexes == -1 .. MaxLen + 1

ConcDateValues == {"3/2/2023", NotADate}

Idle ==
    [pc |-> "idle", op |-> "none", arr |-> 1, len |-> 0, idx |-> 0, k |-> 0,
     tmp |-> 0, snap |-> <<>>, conflict |-> FALSE, panic |-> FALSE,
     retLen |-> 0, retElems |-> <<>>, value |-> "", layout |-> "",
     val |-> WholeDays(0), err |-> NoErr]

\* A goroutine inside RemoveRow that has not returned yet.
Running(g) == gor[g].pc \in {"read", "write", "return"}

\* A copy that reads the cell it is about to fill.
CopySource_Same(k) == k + 1

\* The cell the copy reads to fill the cell of Go index k.
CopySource(k) == k + 2

\* Goroutine g enters RemoveRow(rows, rmvIdx), rows being the first n cells
\* of array a.  The two comparisons and the bounds checks read the slice
\* header only: the call panics, or returns without a copy, or starts to
\* copy the rows after rmvIdx down.
GoRemoveRow(g, a, n, rmvIdx) ==
    LET r == RemoveRow(heap[a], n, rmvIdx)
        copies == ~r.panic /\ n # rmvIdx /\ r.len = n - 1 /\ rmvIdx < n - 1
    IN  /\ gor[g].pc = "idle"
        /\ gor' = [gor EXCEPT ![g] =
                     [Idle EXCEPT !.pc = IF r.panic THEN "done"
                                         ELSE IF copies THEN "read" ELSE "return",
                                  !.op = "RemoveRow", !.arr = a, !.len = n,
                                  !.idx = rmvIdx, !.snap = heap[a],
                                  !.k = IF copies THEN rmvIdx ELSE 0,
                                  !.panic = r.panic, !.retLen = r.len]]
        /\ UNCHANGED <<heap, store, rowsLen, call, clientVars>>

\* The copy reads the next row to move.
GoRead(g) ==
    /\ gor[g].pc = "read"
    /\ gor' = [gor EXCEPT ![g].tmp = heap[gor[g].arr][CopySource(gor[g].k)],
                          ![g].pc = "write"]
    /\ UNCHANGED <<heap, store, rowsLen, call, clientVars>>

\* The copy writes the row one cell down.  Every other goroutine that is
\* inside RemoveRow on the same backing array has now been written under.
GoWrite(g) ==
    LET me == gor[g] IN
    /\ me.pc = "write"
    /\ heap' = [heap EXCEPT ![me.arr][me.k + 1] = me.tmp]
    /\ gor' = [o \in Goroutines |->
                 IF o = g
                 THEN [me EXCEPT !.k = me.k + 1, !.tmp = 0,
                                 !.pc = IF me.k + 1 < me.len - 1 THEN "read" ELSE "return"]
                 ELSE IF Running(o) /\ gor[o].arr = me.arr
                      THEN [gor[o] EXCEPT !.conflict = TRUE]
                      ELSE gor[o]]
    /\ UNCHANGED <<store, rowsLen, call, clientVars>>

\* RemoveRow returns: the caller holds the slice header and reads its rows.
GoReturn(g) ==
    /\ gor[g].pc = "return"
    /\ gor' = [gor EXCEPT ![g].pc = "done", ![g].k = 0,
                          ![g].retElems = Elems(heap[gor[g].arr], gor[g].retLen)]
    /\ UNCHANGED <<heap, store, rowsLen, call, clientVars>>

\* Goroutine g runs SerialDate(value, format).
GoSerialDate(g, value, format) ==
    LET r == CHOOSE c \in SerialDateRuns : c.value = value /\ c.layout = format IN
    /\ gor[g].pc = "idle"
    /\ gor' = [gor EXCEPT ![g] = [Idle EXCEPT !.pc = "done", !.op = "SerialDate",
                                              !.value = value, !.layout = format,
                                              !.val = r.val, !.err = r.err]]
    /\ UNCHANGED <<heap, store, rowsLen, call, clientVars>>

\* Once every call of a round has returned, the callers drop the results and
\* build fresh row sequences for the next round of calls.
NextRound ==
    /\ \A g \in Goroutines : gor[g].pc \in {"idle", "done"}
    /\ \E g \in Goroutines : gor[g].pc = "done"
    /\ gor' = [g \in Goroutines |-> Idle]
    /\ heap' = FreshHeap
    /\ UNCHANGED <<store, rowsLen, call, clientVars>>

InitConc ==
    /\ store = FreshArray
    /\ rowsLen = 0
    /\ call = NoCall
    /\ heap = FreshHeap
    /\ gor = [g \in Goroutines |-> Idle]
    /\ ClientIdle

NextConc ==
    \/ \E g \in Goroutines, a \in Arrays, n \in 0 .. MaxLen, i \in ConcIndexes :
          GoRemoveRow(g, a, n, i)
    \/ \E g \in Goroutines : GoRead(g)
    \/ \E g \in Goroutines : GoWrite(g)
    \/ \E g \in Goroutines : GoReturn(g)
    \/ \E g \in Goroutines, v \in ConcDateValues, l \in DateOnlyLayouts :
          GoSerialDate(g, v, l)
    \/ NextRound

SpecConc == InitConc /\ [][NextConc]_vars

(***************************************************************************)
(* The sequential caller.                                                  *)
(***************************************************************************)
\* The caller builds a fresh slice of n distinct rows.
NewRows(n) ==
    /\ store' = FreshArray
    /\ rowsLen' = n
    /\ call' = [op |-> "NewRows", len |-> n]
    /\ UNCHANGED <<heap, gor, clientVars>>

\* The caller runs RemoveRow(rows, rmvIdx) and either keeps its own slice
\* header (assign = FALSE) or overwrites it with the result, as in
\* rows = RemoveRow(rows, i).  A panic aborts the call before any write.
CallRemoveRow(rmvIdx, assign) ==
    LET r == RemoveRow(store, rowsLen, rmvIdx) IN
    /\ store' = r.mem
    /\ rowsLen' = IF assign /\ ~r.panic THEN r.len ELSE rowsLen
    /\ call' = [op |-> "RemoveRow", idx |-> rmvIdx, pre |-> store,
                preLen |-> rowsLen, panic |-> r.panic, retLen |-> r.len]
    /\ UNCHANGED <<heap, gor, clientVars>>

\* The caller runs SerialDate(value, format).
CallSerialDate(value, format) ==
    LET r == CHOOSE c \in SerialDateRuns : c.value = value /\ c.layout = format IN
    /\ call' = [op |-> "SerialDate", value |-> value, layout |-> format,
                val |-> r.val, err |-> r.err]
    /\ UNCHANGED <<store, rowsLen, heap, gor, clientVars>>

Init ==
    /\ store = FreshArray
    /\ rowsLen \in 0 .. MaxLen
    /\ call = NoCall
    /\ heap = FreshHeap
    /\ gor = [g \in Goroutines |-> Idle]
    /\ ClientIdle

Next ==
    \/ \E n \in 0 .. MaxLen : NewRows(n)
    \/ \E i \in Indexes, a \in BOOLEAN : CallRemoveRow(i, a)
    \/ \E v \in DateValues, l \in Layouts : CallSerialDate(v, l)

Spec == Init /\ [][Next]_vars

(***************************************************************************)
(* The caller of a Styler: it makes a Styler, then calls setters and cell  *)
(* constructors on it, and goes on either with the pointer a setter        *)
(* returned (chain) or with the pointer it already had.                    *)
(***************************************************************************)
\* The number of calls made on one Styler.
MaxCalls == 3

\* The arguments the caller passes.
FontFamilies == {"Arial", "Courier"}

FontSizes == {10, 12}

DatePatterns == {"yyyy-mm-dd"}

NumberPatterns == {"0.00"}

HorizontalAlignments == {"", "MIDDLE", "RIGHT"}

VerticalAlignments == {"", "TOP"}

CellDates == {"3/2/2023", NotADate}

CellText == "Total"

CellNumber == WholeDays(5)

\* The last call: its name, how many calls the Styler has had, the address
\* of the cell it built (0 for none) and the arguments of a cell constructor.
StylerCall(op, n, addr, value, layout, borders) ==
    [op |-> op, n |-> n, addr |-> addr, value |-> value, layout |-> layout,
     borders |-> borders]

\* Every cell constructor returns a pointer to the same static cell.
NewCellAddr_Static(mem) == 1

\* &sheets.CellData{...}: a composite literal is a new object at every
\* call, here at the next free address.
NewCellAddr(mem) == Len(mem) + 1

\* The cells with cell c written at address a.
Stored(mem, a, c) ==
    [k \in 1 .. (IF a > Len(mem) THEN a ELSE Len(mem)) |->
        IF k = a THEN c ELSE mem[k]]

CallNewStyler ==
    /\ call.n > 0
    /\ styler' = NewStyler
    /\ setLog' = NoSetterCalls
    /\ cells' = <<>>
    /\ call' = StylerCall("NewStyler", 0, 0, "", "", NilBorders)
    /\ UNCHANGED <<store, rowsLen, heap, gor, disk, remote>>

\* A setter call with outcome r.
CallSetter(op, r, chain, log) ==
    /\ call.n < MaxCalls
    /\ styler' = IF chain THEN r.ret ELSE r.self
    /\ setLog' = log
    /\ call' = StylerCall(op, call.n + 1, 0, "", "", NilBorders)
    /\ UNCHANGED <<cells, store, rowsLen, heap, gor, disk, remote>>

Logged(arg) == [called |-> TRUE, arg |-> arg]

CallFontBold(bold, chain) ==
    CallSetter("FontBold", FontBold(styler, bold), chain,
               [setLog EXCEPT !.fontBold = Logged(bold)])

CallFontFamily(fontFamily, chain) ==
    CallSetter("FontFamily", FontFamily(styler, fontFamily), chain,
               [setLog EXCEPT !.fontFamily = Logged(fontFamily)])

CallFontSize(fontSize, chain) ==
    CallSetter("FontSize", FontSize(styler, fontSize), chain,
               [setLog EXCEPT !.fontSize = Logged(fontSize)])

CallDatePattern(pattern, chain) ==
    CallSetter("DatePattern", DatePattern(styler, pattern), chain,
               [setLog EXCEPT !.datePattern = Logged(pattern)])

CallNumberPattern(pattern, chain) ==
    CallSetter("NumberPattern", NumberPattern(styler, pattern), chain,
               [setLog EXCEPT !.numberPattern = Logged(pattern)])

CallHorizontalAlignment(alignment, chain) ==
    CallSetter("HorizontalAlignment", HorizontalAlignment(styler, alignment), chain,
               [setLog EXCEPT !.horizontalAlignment = Logged(alignment)])

CallVerticalAlignment(alignment, chain) ==
    CallSetter("VerticalAlignment", VerticalAlignment(styler, alignment), chain,
               [setLog EXCEPT !.verticalAlignment = Logged(alignment)])

\* A cell constructor call that returns cell c.
CallCell(op, c, value, layout, borders) ==
    /\ call.n < MaxCalls
    /\ cells' = Stored(cells, NewCellAddr(cells), c)
    /\ call' = StylerCall(op, call.n + 1, NewCellAddr(cells), value, layout, borders)
    /\ UNCHANGED <<styler, setLog, store, rowsLen, heap, gor, disk, remote>>

CallTextCell(borders) ==
    CallCell("TextCell", TextCell(styler, CellText, borders), CellText, "", borders)

CallBoolCell(value) ==
    CallCell("BoolCell", BoolCell(styler, value, NilBorders), "", "", NilBorders)

CallCheckBoxCell(value) ==
    CallCell("CheckBoxCell", CheckBoxCell(styler, value, NilBorders), "", "", NilBorders)

CallNumberCell ==
    CallCell("NumberCell", NumberCell(styler, CellNumber, NilBorders), "", "",
             NilBorders)

CallAccountingCell ==
    CallCell("AccountingCell", AccountingCell(styler, CellNumber, NilBorders), "", "",
             NilBorders)

CallDateCell(date, layout, borders) ==
    CallCell("DateCell", DateCell(styler, date, layout, borders), date, layout,
             borders)

InitStyler ==
    /\ store = FreshArray
    /\ rowsLen = 0
    /\ heap = FreshHeap
    /\ gor = [g \in Goroutines |-> Idle]
    /\ styler = NewStyler
    /\ setLog = NoSetterCalls
    /\ cells = <<>>
    /\ disk = FreshDisk
    /\ remote = QuietRemote
    /\ call = StylerCall("NewStyler", 0, 0, "", "", NilBorders)

NextStyler ==
    \/ CallNewStyler
    \/ \E b \in BOOLEAN, ch \in BOOLEAN : CallFontBold(b, ch)
    \/ \E f \in FontFamilies, ch \in BOOLEAN : CallFontFamily(f, ch)
    \/ \E z \in FontSizes, ch \in BOOLEAN : CallFontSize(z, ch)
    \/ \E p \in DatePatterns, ch \in BOOLEAN : CallDatePattern(p, ch)
    \/ \E p \in NumberPatterns, ch \in BOOLEAN : CallNumberPattern(p, ch)
    \/ \E a \in HorizontalAlignments, ch \in BOOLEAN : CallHorizontalAlignment(a, ch)
    \/ \E a \in VerticalAlignments, ch \in BOOLEAN : CallVerticalAlignment(a, ch)
    \/ \E b \in BorderConfs : CallTextCell(b)
    \/ \E v \in BOOLEAN : CallBoolCell(v)
    \/ \E v \in BOOLEAN : CallCheckBoxCell(v)
    \/ CallNumberCell
    \/ CallAccountingCell
    \/ \E d \in CellDates, l \in DateOnlyLayouts, b \in BorderConfs : CallDateCell(d, l, b)

SpecStyler == InitStyler /\ [][NextStyler]_vars

(***************************************************************************)
(* The caller of NewSheetsService: programs that build a service one after *)
(* the other on the same paths, the user changing the files in between.    *)
(***************************************************************************)
\* The last call: the disk before it, what NewSheetsService returned and
\* did, and the token of the web flow that the call right before it
\* completed (NoToken when there was none).
ServiceCall(op, pre, r, afterFlow) ==
    [op |-> op, pre |-> pre, handle |-> r.handle, err |-> r.err, tok |-> r.tok,
     flows |-> r.flows, saves |-> r.saves, reads |-> r.reads, exit |-> r.exit,
     afterFlow |-> afterFlow]

\* The token of the web flow the last call ran to its end.
CompletedFlow ==
    IF call.op = "NewSheetsService" /\ call.flows = 1 /\ ~call.exit
    THEN call.tok ELSE NoToken

CallNewSheetsService(web, serviceOK) ==
    LET r == NewSheetsService(disk, web, serviceOK) IN
    /\ disk' = r.disk
    /\ call' = ServiceCall("NewSheetsService", disk, r, CompletedFlow)
    /\ UNCHANGED <<store, rowsLen, heap, gor, styler, setLog, cells, remote>>

\* Between two programs the user replaces, removes or protects the files.
ChangeFiles(d) ==
    /\ d # disk
    /\ disk' = d
    /\ call' = ServiceCall("ChangeFiles", disk, BeforeToken(d, NoErr), NoToken)
    /\ UNCHANGED <<store, rowsLen, heap, gor, styler, setLog, cells, remote>>

InitService ==
    /\ store = FreshArray
    /\ rowsLen = 0
    /\ heap = FreshHeap
    /\ gor = [g \in Goroutines |-> Idle]
    /\ styler = NewStyler
    /\ setLog = NoSetterCalls
    /\ cells = <<>>
    /\ remote = QuietRemote
    /\ disk \in Disks
    /\ call = ServiceCall("none", disk, BeforeToken(disk, NoErr), NoToken)

NextService ==
    \/ \E w \in WebOutcomes, ok \in BOOLEAN : CallNewSheetsService(w, ok)
    \/ \E d \in Disks : ChangeFiles(d)

SpecService == InitService /\ [][NextService]_vars

(***************************************************************************)
(* The caller of GetSheetData and UpdateSheetData.                         *)
(***************************************************************************)
\* The arguments the caller passes.
Ssid == "13yQwByikICWeVWP"

ReadRange == "Sheet1!A1:D5"

Gids == {Small64(0), Small64(7)}

StartColumns == {Small64(1)}

EndColumns == {Small64(4), Small64(6)}

StartRows ==
    {Small64(0), Small64(1), MinusOne64, Int64(1, LimbMax, LimbMax - 1), MaxInt64}

NewVals == {SubSeq(FreshArray, 1, n) : n \in 0 .. MaxLen} \cup {<<2, 1>>}

\* The request GetSheetData sends.
GetRequest(ssid, readRange) ==
    [ssid |-> ssid, get |-> [Ranges |-> <<readRange>>, IncludeGridData |-> TRUE]]

\* The last call: its arguments, the reply of the service, and the rows and
\* the error returned.
SheetsCall(op, reply, endColumnIndex, gid, startColumnIndex, startRowIndex, newVals, rows, err) ==
    [op |-> op, reply |-> reply, endColumnIndex |-> endColumnIndex, gid |-> gid,
     startColumnIndex |-> startColumnIndex, startRowIndex |-> startRowIndex,
     newVals |-> newVals, rows |-> rows, err |-> err]

ErrorReply(e) == [err |-> e, Sheets |-> <<>>]

CallGetSheetData(reply) ==
    LET r == GetSheetData(reply) IN
    /\ remote' = [requests |-> <<GetRequest(Ssid, ReadRange)>>]
    /\ call' = SheetsCall("GetSheetData", reply, Small64(0), Small64(0), Small64(0),
                          Small64(0), <<>>, r.rows, r.err)
    /\ UNCHANGED <<store, rowsLen, heap, gor, styler, setLog, cells, disk>>

CallUpdateSheetData(endColumnIndex, gid, startColumnIndex, startRowIndex, newVals, apiErr) ==
    LET r == UpdateSheetData(Ssid, endColumnIndex, gid, startColumnIndex,
                             startRowIndex, newVals, apiErr) IN
    /\ remote' = [requests |-> r.sent]
    /\ call' = SheetsCall("UpdateSheetData", ErrorReply(apiErr), endColumnIndex, gid,
                          startColumnIndex, startRowIndex, newVals, <<>>, r.err)
    /\ UNCHANGED <<store, rowsLen, heap, gor, styler, setLog, cells, disk>>

InitSheets ==
    /\ store = FreshArray
    /\ rowsLen = 0
    /\ heap = FreshHeap
    /\ gor = [g \in Goroutines |-> Idle]
    /\ styler = NewStyler
    /\ setLog = NoSetterCalls
    /\ cells = <<>>
    /\ disk = FreshDisk
    /\ remote = QuietRemote
    /\ call = SheetsCall("none", ErrorReply(NoErr), Small64(0), Small64(0),
                         Small64(0), Small64(0), <<>>, <<>>, NoErr)

NextSheets ==
    \/ \E reply \in Replies : CallGetSheetData(reply)
    \/ \E ec \in EndColumns, g \in Gids, sc \in StartColumns, sr \in StartRows,
          nv \in NewVals, e \in ApiErrors \cup {NoErr} :
          CallUpdateSheetData(ec, g, sc, sr, nv, e)

SpecSheets == InitSheets /\ [][NextSheets]_vars

(***************************************************************************)
(* Properties of RemoveRow, read off the last call of the caller.          *)
(***************************************************************************)
IsRemoveRow == call.op = "RemoveRow"

\* s without the element at Go index i.
Excluding(s, i) == [k \in 1 .. Len(s) - 1 |-> IF k <= i THEN s[k] ELSE s[k + 1]]

\* The rows the caller passed in, and the rows of the returned slice.
Passed == Elems(call.pre, call.preLen)

Result == Elems(store, call.retLen)

\* C1: for 0 <= i < len(R), RemoveRow(R, i) returns a sequence of length
\* len(R) - 1 that is R without the element at i, the others in their order
\* (every element formerly at j > i is at j - 1).
C1_RemovesOneRow ==
    (IsRemoveRow /\ 0 <= call.idx /\ call.idx < call.preLen) =>
        /\ ~call.panic
        /\ call.retLen = call.preLen - 1
        /\ Result = Excluding(Passed, call.idx)
        /\ \A j \in call.idx + 1 .. call.preLen - 1 : Result[j] = Passed[j + 1]

C1_Witness ==
    /\ IsRemoveRow /\ ~call.panic
    /\ call.preLen = MaxLen /\ call.idx = 1
    /\ Result = Excluding(Passed, 1)

\* C2: RemoveRow on the empty sequence with index 0 returns the empty
\* sequence and does not panic.
C2_EmptyNoCrash ==
    (IsRemoveRow /\ call.preLen = 0 /\ call.idx = 0) =>
        (~call.panic /\ call.retLen = 0)

\* C3: for every index i > len(R), RemoveRow(R, i) returns R unchanged (same
\* length, same elements, same order) and raises no error.
C3_HighIndexNoOp ==
    (IsRemoveRow /\ call.idx > call.preLen) =>
        (~call.panic /\ call.retLen = call.preLen /\ Result = Passed)

\* C4: when the index equals len(R), RemoveRow returns the first len(R) - 2
\* elements of R in order.
C4_IndexAtLenDropsTwo ==
    (IsRemoveRow /\ call.idx = call.preLen) =>
        /\ ~call.panic
        /\ call.retLen = call.preLen - 2
        /\ Result = SubSeq(Passed, 1, call.preLen - 2)

\* C5 as stated: after RemoveRow returns, the sequence the caller passed in,
\* read at its original length, holds the same elements at the same places.
C5_InputUntouched ==
    (IsRemoveRow /\ ~call.panic) => Elems(store, call.preLen) = Passed

\* C5 as amended: RemoveRow keeps no state of its own but splices in place.
\* When it returns from a call with 0 <= i < len(R) - 1, the caller's R reads
\* R[0..i-1], R[i+1..len-1], R[len-1] (the rows after i moved down one place,
\* the last one now twice); when it returns from any other call, the backing
\* array is exactly as it was.  Cells past len(R) are never written.
C5_SplicesInPlace ==
    (IsRemoveRow /\ ~call.panic) =>
        IF 0 <= call.idx /\ call.idx < call.preLen - 1
        THEN /\ \A k \in 1 .. MaxLen :
                  store[k] = IF k > call.idx /\ k < call.preLen
                             THEN call.pre[k + 1] ELSE call.pre[k]
             /\ store[call.preLen] = call.pre[call.preLen]
        ELSE store = call.pre

C5_Witness ==
    /\ IsRemoveRow /\ ~call.panic
    /\ call.idx = 0 /\ call.preLen = MaxLen
    /\ Elems(store, call.preLen) # Passed

(***************************************************************************)
(* Properties of SerialDate, read off the last call of the caller.         *)
(***************************************************************************)
IsSerialDate == call.op = "SerialDate"

\* The calendar days from 1899-12-30 to the date of the parsed fields f.
DaysFromStart(f) ==
    daysSinceEpoch(f.year, f.month, f.day) - daysSinceEpoch(1899, 12, 30)

\* C7: whenever value parses under layout to a calendar date d, SerialDate
\* returns no error and exactly the number of days from 1899-12-30 to d,
\* negative when d is earlier.
C7_ExactDayCount ==
    (IsSerialDate /\ call.layout \in DateOnlyLayouts
       /\ Parse(call.layout, call.value).err = NoErr) =>
        /\ call.err = NoErr
        /\ call.val = WholeDays(DaysFromStart(Parse(call.layout, call.value).f))

\* C8 as stated: under the layout 1/2/2006, 12/30/1899 gives 0, 1/1/1900
\* gives 1 and 3/2/2023 gives 44987.
C8_KnownValues ==
    (IsSerialDate /\ call.layout = LayoutMDY) =>
        /\ call.value = "12/30/1899" => (call.err = NoErr /\ call.val = WholeDays(0))
        /\ call.value = "1/1/1900" => (call.err = NoErr /\ call.val = WholeDays(1))
        /\ call.value = "3/2/2023" => (call.err = NoErr /\ call.val = WholeDays(44987))

\* C8 as amended: under the layout 1/2/2006, 12/30/1899 gives 0, 1/1/1900
\* gives 2 (it is 12/31/1899 that gives 1) and 3/2/2023 gives 44987; the
\* count starts at 1899-12-30.
C8_KnownValuesFromStart ==
    (IsSerialDate /\ call.layout = LayoutMDY) =>
        /\ call.value = "12/30/1899" => (call.err = NoErr /\ call.val = WholeDays(0))
        /\ call.value = "12/31/1899" => (call.err = NoErr /\ call.val = WholeDays(1))
        /\ call.value = "1/1/1900" => (call.err = NoErr /\ call.val = WholeDays(2))
        /\ call.value = "3/2/2023" => (call.err = NoErr /\ call.val = WholeDays(44987))

C8_Witness ==
    /\ IsSerialDate /\ call.layout = LayoutMDY /\ call.value = "1/1/1900"
    /\ call.err = NoErr /\ call.val = WholeDays(2)

\* A layout with at least one date or time element to match.
RECURSIVE HasElement(_)
HasElement(lay) ==
    /\ Len(lay) > 0
    /\ \/ StdChunk(lay).std # "literal"
       \/ HasElement(Tail(lay))

\* What a failed SerialDate hands back: 0.0 and the error of time.Parse.
FailsWithParseError ==
    /\ call.err = Parse(call.layout, call.value).err
    /\ call.err # NoErr
    /\ call.val = WholeDays(0)

\* C9 as stated: SerialDate fails with the parse error, returning 0.0,
\* whenever value does not conform to layout, and for the value not-a-date
\* it does so under every layout.
C9_NotADateFailsAlways ==
    IsSerialDate =>
        /\ Parse(call.layout, call.value).err # NoErr => FailsWithParseError
        /\ call.value = NotADate => FailsWithParseError

\* C9 as amended: SerialDate fails with the parse error, returning 0.0,
\* whenever value does not conform to layout.  The value not-a-date fails
\* under every layout that has a date or time element, but it conforms to the
\* layout not-a-date, which is literal text throughout: there SerialDate
\* returns a number and no error.
C9_NotADateFailsUnderDateLayouts ==
    IsSerialDate =>
        /\ Parse(call.layout, call.value).err # NoErr => FailsWithParseError
        /\ (call.value = NotADate /\ HasElement(call.layout)) => FailsWithParseError
        /\ (call.value = NotADate /\ call.layout = LayoutLiteral) => call.err = NoErr

C9_Witness ==
    /\ IsSerialDate /\ call.value = NotADate /\ call.layout = LayoutMDY
    /\ call.err = ErrBad /\ call.val = WholeDays(0)

\* The value and the layout of a call without their zone offset field.
WithoutZone(str) == SubSeq(str, 1, Len(str) - 6)

\* C10: SerialDate applies no timezone adjustment: a value whose layout
\* carries a UTC offset gives the result of the same date given without it.
C10_NoZoneAdjustment ==
    (IsSerialDate /\ call.layout = LayoutZone /\ call.err = NoErr) =>
        call.val = SerialDate(WithoutZone(call.value), WithoutZone(call.layout)).val
(***************************************************************************)
(* Properties of concurrent calls, read off the goroutines that returned.  *)
(***************************************************************************)
\* What the call of goroutine g returns when it runs alone on the rows it
\* was given.
Alone(g) == RemoveRow(gor[g].snap, gor[g].len, gor[g].idx)

\* Goroutine g is back from a call with exactly the result of the call run
\* alone.
AsAlone(g) ==
    IF gor[g].op = "RemoveRow"
    THEN /\ gor[g].panic = Alone(g).panic
         /\ ~gor[g].panic =>
              /\ gor[g].retLen = Alone(g).len
              /\ gor[g].retElems = Elems(Alone(g).mem, Alone(g).len)
    ELSE /\ gor[g].val = SerialDate(gor[g].value, gor[g].layout).val
         /\ gor[g].err = SerialDate(gor[g].value, gor[g].layout).err

\* C6 as stated: under every interleaving of concurrent calls, calls given
\* the same row sequence included, each call returns exactly the result it
\* would return if run alone.
C6_ConcurrentAsAlone ==
    \A g \in Goroutines : gor[g].pc = "done" => AsAlone(g)

\* C6 as amended: SerialDate calls, and RemoveRow calls during which no other
\* caller's RemoveRow writes into the backing array of their row sequence
\* (separate backing arrays, or no concurrent call with 0 <= i < len - 1 on
\* that array), each return exactly the result they would return if run
\* alone; a RemoveRow call that overlaps a splice of the same backing array
\* may return other rows.
C6_AsAloneUnlessWrittenUnder ==
    \A g \in Goroutines : (gor[g].pc = "done" /\ ~gor[g].conflict) => AsAlone(g)

C6_Witness ==
    /\ gor[1].pc = "done" /\ gor[1].op = "RemoveRow" /\ ~gor[1].conflict
    /\ gor[1].idx = 0 /\ gor[1].len = MaxLen /\ gor[1].retElems # Elems(gor[1].snap, MaxLen - 1)
    /\ gor[2].pc = "write" /\ gor[2].arr # gor[1].arr /\ gor[2].k > gor[2].idx

(***************************************************************************)
(* Properties of the Styler, read off its fields, the log of setter calls  *)
(* and the cells built.                                                    *)
(***************************************************************************)
\* The value a setting has after the setter calls logged in l: the argument
\* of the last call, or the default when there was none.
LastOr(l, default) == IF l.called THEN l.arg ELSE default

CellOps ==
    {"TextCell", "BoolCell", "CheckBoxCell", "NumberCell", "AccountingCell", "DateCell"}

\* The cell the last call built.
BuiltCell == cells[call.addr]

\* C11: a Styler starts with the defaults (bold false, Verdana, 10,
\* M/d/yyyy, #,##0.00_);-#,##0.00, LEFT, MIDDLE); after any sequence of
\* setter calls every setting equals the normalised argument of the last
\* setter call for it, or its default when there was none (so no setter
\* changes another setting), whether or not the caller kept the setter's
\* return value; and the next cell built carries exactly these settings.
C11_SettersSetOneSetting ==
    /\ call.op = "NewStyler" =>
          /\ styler.fontBold = FALSE /\ styler.fontFamily = "Verdana"
          /\ styler.fontSize = 10 /\ styler.datePattern = "M/d/yyyy"
          /\ styler.numberPattern = "#,##0.00_);-#,##0.00"
          /\ styler.horizontalAlignment = "LEFT"
          /\ styler.verticalAlignment = "MIDDLE"
    /\ styler.fontBold = LastOr(setLog.fontBold, FALSE)
    /\ styler.fontFamily = LastOr(setLog.fontFamily, "Verdana")
    /\ styler.fontSize = LastOr(setLog.fontSize, 10)
    /\ styler.datePattern = LastOr(setLog.datePattern, "M/d/yyyy")
    /\ styler.numberPattern = LastOr(setLog.numberPattern, "#,##0.00_);-#,##0.00")
    /\ styler.horizontalAlignment =
          (LET a == LastOr(setLog.horizontalAlignment, "LEFT") IN
           IF a = "" THEN "LEFT" ELSE IF a = "MIDDLE" THEN "CENTER" ELSE a)
    /\ styler.verticalAlignment =
          (LET a == LastOr(setLog.verticalAlignment, "MIDDLE") IN
           IF a = "" THEN "MIDDLE" ELSE a)
    /\ call.op \in CellOps =>
          /\ BuiltCell.HorizontalAlignment = styler.horizontalAlignment
          /\ BuiltCell.VerticalAlignment = styler.verticalAlignment
          /\ BuiltCell.TextFormat.Bold = styler.fontBold
          /\ BuiltCell.TextFormat.FontFamily = styler.fontFamily
          /\ BuiltCell.TextFormat.FontSize = styler.fontSize
          /\ call.op = "NumberCell" =>
                BuiltCell.NumberFormat.Pattern = styler.numberPattern
          /\ BuiltCell.NumberFormat.Type = "DATE" =>
                BuiltCell.NumberFormat.Pattern = styler.datePattern

\* A cell built right after two setter calls whose return values the caller
\* dropped or kept: bold and centred through MIDDLE.
C11_Witness ==
    /\ call.op = "TextCell" /\ call.n = MaxCalls
    /\ setLog.fontBold = Logged(TRUE)
    /\ setLog.horizontalAlignment = Logged("MIDDLE")
    /\ BuiltCell.TextFormat.Bold /\ BuiltCell.HorizontalAlignment = "CENTER"

(***************************************************************************)
(* Properties of NewSheetsService, read off the last call and the disk.    *)
(***************************************************************************)
IsNewSheetsService == call.op = "NewSheetsService"

\* C12: when the credentials are good and the token file cannot be read or
\* decoded, NewSheetsService runs the web flow exactly once and, the flow
\* completed, the token path then holds the token obtained, so that the call
\* right after it takes that token from the file and runs no web flow; when
\* the token file is readable and decodable, no web flow runs and the file
\* is not written.
C12_FlowCreatesTokenFile ==
    (IsNewSheetsService /\ call.pre.cred = "valid") =>
        /\ call.pre.tok.state # "valid" =>
              /\ call.flows = 1
              /\ ~call.exit => disk.tok = [state |-> "valid", token |-> call.tok]
        /\ call.pre.tok.state = "valid" =>
              /\ call.flows = 0 /\ call.saves = 0 /\ disk = call.pre
              /\ call.tok = call.pre.tok.token
        /\ call.afterFlow # NoToken => (call.flows = 0 /\ call.tok = call.afterFlow)

\* C13: NewSheetsService returns a handle or an error and never both; when
\* the credential file cannot be read it returns (nil, ErrReadCredentials),
\* when it is no OAuth configuration (nil, ErrConfig), and in both cases the
\* token file is neither read nor written and no web flow is started.
C13_CredentialsBeforeToken ==
    (IsNewSheetsService /\ ~call.exit) =>
        /\ (call.handle = "nil") # (call.err = NoErr)
        /\ call.pre.cred = "missing" =>
              (call.handle = "nil" /\ call.err = ErrReadCredentials)
        /\ call.pre.cred = "invalid" => (call.handle = "nil" /\ call.err = ErrConfig)
        /\ call.pre.cred # "valid" =>
              /\ call.reads = 0 /\ call.saves = 0 /\ call.flows = 0
              /\ disk = call.pre

\* Bad credentials next to a token file that would have started the flow.
C13_Witness ==
    /\ IsNewSheetsService /\ ~call.exit
    /\ call.pre.cred = "invalid" /\ call.pre.tok.state = "missing"
    /\ call.pre.canWrite
    /\ call.err = ErrConfig /\ call.handle = "nil" /\ disk.tok.state = "missing"

(***************************************************************************)
(* Properties of GetSheetData and UpdateSheetData, read off the last call  *)
(* and the requests the service received.                                  *)
(***************************************************************************)
IsGetSheetData == call.op = "GetSheetData"

\* C14: GetSheetData has exactly one of three outcomes: the API call fails,
\* and it returns no rows and the API's error unchanged; the reply has no
\* sheets or its first sheet no grid data, and it returns no rows and the
\* error "no sheet data found"; otherwise it returns the row data of the
\* first grid of the first sheet and a nil error.  Rows never come with an
\* error.
C14_ThreeOutcomes ==
    IsGetSheetData =>
        /\ IF call.reply.err # NoErr
           THEN call.rows = <<>> /\ call.err = call.reply.err
           ELSE IF Len(call.reply.Sheets) = 0 \/ Len(call.reply.Sheets[1]) = 0
           THEN call.rows = <<>> /\ call.err = "no sheet data found"
           ELSE call.rows = call.reply.Sheets[1][1] /\ call.err = NoErr
        /\ call.err # NoErr => call.rows = <<>>

\* Two sheets that differ, the first with two grids that differ.
C14_Witness ==
    /\ IsGetSheetData /\ call.err = NoErr
    /\ Len(call.reply.Sheets) = 2 /\ Len(call.reply.Sheets[1]) = 2
    /\ call.reply.Sheets[2] # <<>>
    /\ call.reply.Sheets[2][1] # call.reply.Sheets[1][1]
    /\ call.reply.Sheets[1][2] # call.reply.Sheets[1][1]
    /\ call.rows = <<3>>

IsUpdateSheetData == call.op = "UpdateSheetData"

\* The number of rows from row index a up to, and without, row index b, for
\* a <= b not further apart than one limb; -1 otherwise.
RowsSpanned(a, b) ==
    IF a.top = b.top /\ a.mid = b.mid
    THEN (IF b.lo >= a.lo THEN b.lo - a.lo ELSE -1)
    ELSE IF \/ (a.top = b.top /\ a.mid < LimbMax /\ b.mid = a.mid + 1)
            \/ (a.top < 1 /\ b.top = a.top + 1 /\ a.mid = LimbMax /\ b.mid = 0)
    THEN (IF b.lo <= a.lo THEN (LimbMax - a.lo) + 1 + b.lo ELSE -1)
    ELSE -1

\* The one UpdateCells request of the one batch update received.
UpdateCellsSent == remote.requests[1].batch.Requests[1].UpdateCells

\* C15: UpdateSheetData sends exactly one batch update that holds exactly
\* one UpdateCells request, with the rows newVals in their order, the field
\* mask "*" and a grid range with the caller's sheet id, start and end column
\* index and start row index, and EndRowIndex = startRowIndex + len(newVals):
\* the range spans exactly as many rows as are supplied.  It returns the
\* API's error unchanged, nil on success.
C15_OneRequestSpanningNewVals ==
    IsUpdateSheetData =>
        /\ Len(remote.requests) = 1
        /\ remote.requests[1].ssid = Ssid
        /\ Len(remote.requests[1].batch.Requests) = 1
        /\ UpdateCellsSent.Rows = call.newVals
        /\ UpdateCellsSent.Fields = "*"
        /\ UpdateCellsSent.Range.SheetId = call.gid
        /\ UpdateCellsSent.Range.StartColumnIndex = call.startColumnIndex
        /\ UpdateCellsSent.Range.EndColumnIndex = call.endColumnIndex
        /\ UpdateCellsSent.Range.StartRowIndex = call.startRowIndex
        /\ RowsSpanned(call.startRowIndex, UpdateCellsSent.Range.EndRowIndex)
              = Len(call.newVals)
        /\ call.err = call.reply.err

(***************************************************************************)
(* Properties of the cells a Styler builds.                                *)
(***************************************************************************)
\* C16: DateCell(date, layout, borders) signals no error.  When date parses
\* under layout, the cell's value is the number SerialDate(date, layout) and
\* its number format is of type DATE with the Styler's current date pattern;
\* when it does not, the cell is the one TextCell(date, borders) returns: the
\* date string as text and no number format.
C16_DateCellFallsBackToText ==
    call.op = "DateCell" =>
        /\ call.addr \in DOMAIN cells
        /\ BuiltCell.HorizontalAlignment = styler.horizontalAlignment
        /\ BuiltCell.VerticalAlignment = styler.verticalAlignment
        /\ BuiltCell.TextFormat =
              [Bold |-> styler.fontBold, FontFamily |-> styler.fontFamily,
               FontSize |-> styler.fontSize]
        /\ BuiltCell.Borders = call.borders
        /\ ~BuiltCell.DataValidation
        /\ IF SerialDate(call.value, call.layout).err = NoErr
           THEN /\ BuiltCell.UserEnteredValue.set = "NumberValue"
                /\ BuiltCell.UserEnteredValue.NumberValue =
                      SerialDate(call.value, call.layout).val
                /\ BuiltCell.NumberFormat =
                      [Pattern |-> styler.datePattern, Type |-> "DATE"]
           ELSE /\ BuiltCell.UserEnteredValue.set = "StringValue"
                /\ BuiltCell.UserEnteredValue.StringValue = call.value
                /\ BuiltCell.NumberFormat.Type = "nil"

\* A date cell for 3/2/2023, then the text cell DateCell builds for
\* not-a-date.
C16_Witness ==
    /\ call.op = "DateCell" /\ call.value = NotADate /\ call.addr = 2
    /\ cells[2].UserEnteredValue.StringValue = NotADate
    /\ cells[2].NumberFormat.Type = "nil"
    /\ cells[1].NumberFormat.Type = "DATE"
    /\ cells[1].UserEnteredValue.NumberValue = WholeDays(44987)

\* What the claim reads of a cell.
Formats(c) ==
    [HorizontalAlignment |-> c.HorizontalAlignment,
     VerticalAlignment |-> c.VerticalAlignment,
     TextFormat |-> c.TextFormat,
     NumberFormat |-> c.NumberFormat]

\* C17: a cell a cell constructor has returned is a snapshot: no later
\* setter call on the same Styler and no later cell construction changes
\* its alignment, its text format or its number format.
C17_CellsAreSnapshots ==
    [][call'.op # "NewStyler" =>
          \A a \in DOMAIN cells :
              a \in DOMAIN cells' /\ Formats(cells'[a]) = Formats(cells[a])]_vars

\* A cell that no longer agrees with the Styler: two setters were called
\* after it was built.
C17_Witness ==
    /\ call.op = "HorizontalAlignment" /\ call.n = MaxCalls
    /\ Len(cells) = 1
    /\ cells[1].HorizontalAlignment = "LEFT" /\ styler.horizontalAlignment = "RIGHT"
    /\ ~cells[1].TextFormat.Bold /\ styler.fontBold

(***************************************************************************)
(* RemoveRow on a negative index.                                          *)
(***************************************************************************)
\* C18: for every row sequence R and every negative index i, RemoveRow(R, i)
\* does not return: the index is taken neither for the out-of-range no-op
\* nor for a removal, and the call ends in a slice-bounds panic.
C18_NegativeIndexPanics ==
    (IsRemoveRow /\ call.idx < 0) => (call.panic /\ store = call.pre)

C18_Witness ==
    /\ IsRemoveRow /\ call.panic
    /\ call.idx = -1 /\ call.preLen = MaxLen
====
